---- MODULE Spec2Model ----
(***************************************************************************)
(* The preview server of AgentForge (src/backend/preview_server.py): the   *)
(* run registry active_runs, the port counter next_port, the request       *)
(* handlers run on one asyncio event loop, the supervisor thread           *)
(* run_in_background of every run, and the child processes.                *)
(*                                                                         *)
(* Scheduling.  Every handler is an `async def` whose only await is the    *)
(* read of the request body, before it touches any state; run_project      *)
(* waits with the blocking time.sleep(3).  So handlers never interleave    *)
(* with each other: the variable loop says which handler holds the event   *)
(* loop.  The supervisor threads and the child processes run in parallel   *)
(* with the handler that holds the loop, so the part of run_project that   *)
(* follows the sleep is split at every access the supervisor can race.     *)
(*                                                                         *)
(* Responses.  A handler's last step leaves its response in resp; the      *)
(* response reaches the client in the step handler_return, which is the    *)
(* only step taken from a state that holds a response.  resp therefore     *)
(* describes the state the handler returned in.                            *)
(*                                                                         *)
(* Logs.  The log buffer of a run is written by its supervisor and its two *)
(* stream_reader threads and read by log_generator only; nothing else in   *)
(* the server depends on it.  Spec follows the registry, the processes and *)
(* the teardown handlers for MaxRuns runs without the log buffers (observe *)
(* says so: a put leaves no trace and no log stream is requested).         *)
(* SpecLog follows one run together with its log buffer, its readers and   *)
(* the log streams on it, under creation, stop and log-stream requests.    *)
(***************************************************************************)
EXTENDS Integers, Sequences, FiniteSets, TLC

\* Number of creation requests (each gets a fresh mkdtemp directory name).
MaxRuns == 2

\* Number of lines the run command of a run prints (stdout and stderr).
MaxLines == 1

\* Length of an entry name of the virtual file tree.
MaxName == 4

\* Depth of the virtual file tree: nested calls of write_project_to_disk.
MaxDepth == 2

\* Number of directories of a materialized project, the root included.
MaxDirs == 4

\* Number of log-stream requests that are answered with a stream.
MaxStreams == 1

\* `None`: the process handle before the spawn, a missing request field.
None == 0

\* next_port = 8002
BasePort == 8002

Runs == 1..MaxRuns

\* proc.stdout and proc.stderr, each read by one stream_reader thread.
Pipes == {"stdout", "stderr"}

VARIABLES
    active_runs,  \* { process_id: {'process': proc, 'port': port, ...} }
    next_port,    \* the global port counter
    child,        \* the OS process of each run's run command
    sup,          \* position of each run's run_in_background thread
    workdir,      \* each run's temp_dir on disk
    loop,         \* the handler that holds the event loop
    resp,         \* the response of the handler that has just returned
    issued,       \* the port get_next_available_port returned to each run
    inst,         \* each run's install command: not run, running, ok, failed
    observe,      \* what the specification follows: which runs, with logs or not
    logq,         \* each run's log_queue
    napp,         \* the number of lines put on each run's log_queue so far
    rd,           \* position of each run's two stream_reader threads
    nout,         \* the number of lines each run's child has printed
    streams,      \* the log streams (log_generator instances), in request order
    base_dir,     \* write_project_to_disk: the directory the traversal is in
    written,      \* write_project_to_disk: the entry written last
    project,      \* the materialized project the detection of run_project reads
    detected      \* what the detection has derived from it

\* The state of the server proper.
server == <<active_runs, next_port, child, sup, workdir, loop, resp, issued,
            inst, observe, logq, napp, rd, nout, streams>>

\* The file tree and the detection of one creation request, which
\* run_project goes through in one piece before it registers the run.
pure == <<base_dir, written, project, detected>>

vars == <<server, pure>>

Idle == [op |-> "idle", rid |-> None]

\* A response: the handler, the run id of the request, success, the HTTP
\* status, the message, a number (the port of the URL, a count), the
\* signals the handler sent through a Popen handle, and the handles it sent
\* them to.
Resp(op, rid, ok, code, detail, n, signals) ==
    [op |-> op, rid |-> rid, ok |-> ok, code |-> code, detail |-> detail,
     n |-> n, signals |-> signals, to |-> {}]

\* The response of a handler that signalled the handles in T.
Signalled(rsp, T) == [rsp EXCEPT !.to = T]

NoResp == Resp("none", None, TRUE, 0, "none", 0, << >>)

\* The server after start-up: no run, no stream.
Start ==
    /\ active_runs = << >>
    /\ next_port = BasePort
    /\ child = [r \in Runs |-> "none"]
    /\ sup = [r \in Runs |-> "idle"]
    /\ workdir = [r \in Runs |-> "none"]
    /\ loop = Idle
    /\ resp = NoResp
    /\ issued = << >>
    /\ inst = [r \in Runs |-> "none"]
    /\ logq = [r \in Runs |-> << >>]
    /\ napp = [r \in Runs |-> 0]
    /\ rd = [r \in Runs |-> [p \in Pipes |-> "off"]]
    /\ nout = [r \in Runs |-> 0]
    /\ streams = << >>

\* A directory by where it lies: inside the destination root or not, and
\* how many levels below the root; level counts the recursive calls of
\* write_project_to_disk that led to it.
Dir(inside, depth, level) == [inside |-> inside, depth |-> depth, level |-> level]

\* project_dir, the destination root, in the outermost call.
RootDir == Dir(TRUE, 0, 0)

\* No entry has been written.
NoEntry == [name |-> << >>, type |-> "none", at |-> RootDir, rel |-> << >>,
            ok |-> TRUE]

\* A command line by what the detection looks at: the tool it starts, the
\* file it runs, and its port flags in order, each with the allocated port
\* or with a port of its own.
Command(tool, file, ports) == [tool |-> tool, file |-> file, ports |-> ports]

\* `None` as a command.
NoCommand == Command("none", "none", << >>)

\* No README.md in the execution directory.
NoReadme == [state |-> "none", install |-> NoCommand, run |-> NoCommand]

\* The content of an execution directory that holds nothing but manifests:
\* no README.md, no framework named in requirements.txt, no .py file, no
\* script in package.json.
Bare == [readme |-> NoReadme, reqs |-> {}, py_files |-> << >>,
         scripts |-> [valid |-> TRUE, names |-> {}]]

\* No project is being detected.
NoProject == [dirs |-> << >>, content |-> Bare]

\* The detection has not started.
NoDetection == [stage |-> "none"]

\* No creation request is writing or detecting.
NoRequest ==
    /\ base_dir = RootDir
    /\ written = NoEntry
    /\ project = NoProject
    /\ detected = NoDetection

Init ==
    /\ Start
    /\ NoRequest
    /\ observe = [runs |-> Runs, logs |-> FALSE, streams |-> 0]

\* One run, with its log buffer.
InitLog ==
    /\ Start
    /\ NoRequest
    /\ observe = [runs |-> {1}, logs |-> TRUE, streams |-> MaxStreams]

\* A handler has returned and its response has not reached the client yet.
Returned == resp /= NoResp

\* The event loop is free to start a handler.
LoopFree == loop = Idle /\ ~Returned

----------------------------------------------------------------------------
(* Helpers *)

\* process.poll() is None: the child has not exited (it may have been sent
\* a kill that has not taken effect yet).
poll_is_None(ch, h) == ch[h] /= "exited"

\* `process and process.poll() is None` on the Registry entry of r.
HandleAlive(reg, ch, r) ==
    /\ reg[r].process /= None
    /\ poll_is_None(ch, reg[r].process)

\* Variant of CleanupDel: the entry is left in place.
CleanupDelSkipped(reg, r) == reg

\* del active_runs[process_id] in cleanup_process
CleanupDel(reg, r) == [x \in DOMAIN reg \ {r} |-> reg[x]]

\* Variant of StopDel: every entry is deleted.
StopDelClears(reg, r) == << >>

\* Variant of StopDel: the entry is left in place.
StopDelNoop(reg, r) == reg

\* del active_runs[process_id] in stop_project
StopDel(reg, r) == [x \in DOMAIN reg \ {r} |-> reg[x]]

\* Variant of cleanup_temp_dir: the directory is removed.
cleanup_temp_dir_rmtree(wd, r) == [wd EXCEPT ![r] = "removed"]

\* cleanup_process leaves temp_dir alone ("Don't bother with temp directory
\* cleanup - let OS handle it").
cleanup_temp_dir(wd, r) == wd

\* The children of T after process.kill() on each: out[x] says whether the
\* signal was delivered or the call raised (the callers swallow the error).
AfterKills(ch, T, out) ==
    [x \in Runs |-> IF x \in T /\ ch[x] = "alive" /\ out[x] = "delivered"
                    THEN "dying" ELSE ch[x]]

\* The signals a handler sent: ss to each child of T.
Sent(T, ss) == IF T = {} THEN << >> ELSE ss

KillOutcomes == {"delivered", "error"}

\* The signals cleanup_process sends to a live child: one immediate kill.
CleanupSignals == <<"kill">>

\* Variant of StopSignals: terminate first, kill afterwards.
StopSignalsGraceful == <<"terminate", "kill">>

\* The signals stop_project sends to a live child: one immediate kill.
StopSignals == <<"kill">>

----------------------------------------------------------------------------
(* The log buffer: a queue.Queue per run *)

\* Variant of queue_get: the newest line is taken.
queue_get_newest(q) ==
    [line |-> q[Len(q)], rest |-> SubSeq(q, 1, Len(q) - 1)]

\* Variant of queue_get: the line stays on the queue.
queue_get_peek(q) == [line |-> Head(q), rest |-> q]

\* log_queue.get() on a non-empty queue: the oldest line, and what is left.
queue_get(q) == [line |-> Head(q), rest |-> Tail(q)]

\* log_queue.put(line), once for every kind in kinds: a line is recorded
\* with its kind and its position in the order of the puts on the queue.
queue_put(q, n, kinds) ==
    q \o [i \in 1..Len(kinds) |-> [n |-> n + i, kind |-> kinds[i]]]

\* `if process_id in active_runs:` in front of a put.
IfTracked(reg, r, kinds) == IF r \in DOMAIN reg THEN kinds ELSE << >>

\* The puts of one step on the queue of run r.
Put(r, kinds) ==
    IF observe.logs
    THEN /\ logq' = [logq EXCEPT ![r] = queue_put(@, napp[r], kinds)]
         /\ napp' = [napp EXCEPT ![r] = @ + Len(kinds)]
    ELSE UNCHANGED <<logq, napp>>

----------------------------------------------------------------------------
(* write_project_to_disk *)

\* The characters of an entry name: the dot, the separator, a letter.
Chars == {".", "/", "a"}

\* The keys of file_system and of the children dicts.
Names == UNION {[1..n -> Chars] : n \in 0..MaxName}

\* Variant of replace_dotdot: the name is left as it is.
replace_dotdot_skipped(name) == name

RECURSIVE replace_dotdot(_)
\* name.replace('..', ''): every occurrence, found from the left and not
\* overlapping, is removed; the result is not searched again.
replace_dotdot(name) ==
    IF Len(name) < 2 THEN name
    ELSE IF name[1] = "." /\ name[2] = "."
    THEN replace_dotdot(SubSeq(name, 3, Len(name)))
    ELSE <<name[1]>> \o replace_dotdot(Tail(name))

\* Variant of lstrip_slash: the name is left as it is.
lstrip_slash_skipped(name) == name

RECURSIVE lstrip_slash(_)
\* .lstrip('/')
lstrip_slash(name) ==
    IF name /= << >> /\ name[1] = "/" THEN lstrip_slash(Tail(name)) ELSE name

\* sanitized_name = name.replace('..', '').lstrip('/')
sanitized_name(name) == lstrip_slash(replace_dotdot(name))

RECURSIVE Segments(_)
\* The path segments of a name: what lies between its separators, without
\* the empty segments.
Segments(name) ==
    IF name = << >> THEN << >>
    ELSE IF name[1] = "/" THEN Segments(Tail(name))
    ELSE LET rest == Segments(Tail(name))
         IN  IF Len(name) > 1 /\ name[2] /= "/"
             THEN <<(<<name[1]>> \o rest[1])>> \o Tail(rest)
             ELSE <<(<<name[1]>>)>> \o rest

RECURSIVE Descend(_, _)
\* The directory a relative path leads to from directory d, as the file
\* system resolves it: `.` stays, `..` goes to the parent (out of the root
\* from the root itself), any other segment goes one level down.
Descend(d, segs) ==
    IF segs = << >> THEN d
    ELSE IF ~d.inside THEN d
    ELSE IF segs[1] = <<".">> THEN Descend(d, Tail(segs))
    ELSE IF segs[1] = <<".", ".">>
    THEN Descend(IF d.depth = 0 THEN Dir(FALSE, 0, d.level)
                 ELSE Dir(TRUE, d.depth - 1, d.level), Tail(segs))
    ELSE Descend(Dir(TRUE, d.depth + 1, d.level), Tail(segs))

\* os.path.join(base_dir, name): an absolute name replaces base_dir, and
\* no absolute path of these names lies in the destination root.
os_path_join(d, name) ==
    IF name /= << >> /\ name[1] = "/" THEN Dir(FALSE, 0, d.level)
    ELSE Descend(d, Segments(name))

\* open(path, 'w') raises when path names a directory: the name is empty,
\* ends in a separator or in a `.` or `..` segment.
IsADirectory(name) ==
    \/ name = << >>
    \/ name[Len(name)] = "/"
    \/ Segments(name)[Len(Segments(name))] \in {<<".">>, <<".", ".">>}

EntryTypes == {"folder", "file"}

\* One iteration of the loop of write_project_to_disk, on an entry of the
\* dict the traversal is in: a folder is created with os.makedirs, a file
\* is written after os.makedirs of its directory.  An open that raises ends
\* the request.
write_entry(name, type) ==
    /\ written = NoEntry
    /\ LET clean == sanitized_name(name)
           path == os_path_join(base_dir, clean)
       IN  written' = [name |-> name, type |-> type, at |-> path,
                       rel |-> Segments(clean),
                       ok |-> (type = "folder" \/ ~IsADirectory(clean))]
    /\ UNCHANGED <<server, base_dir, project, detected>>

\* The recursive call on the children of the folder just created: the
\* traversal goes on with the path of the folder as base_dir.
write_children ==
    /\ written.type = "folder"
    /\ base_dir.level < MaxDepth
    /\ base_dir' = Dir(written.at.inside, written.at.depth, base_dir.level + 1)
    /\ written' = NoEntry
    /\ UNCHANGED <<server, project, detected>>

\* The loop goes on to the next entry of the dict.
write_next ==
    /\ written.type /= "none"
    /\ written.ok
    /\ written' = NoEntry
    /\ UNCHANGED <<server, base_dir, project, detected>>

----------------------------------------------------------------------------
(* find_project_root *)

Manifests == {"requirements.txt", "package.json"}

\* The materialized trees: directory 1 is project_dir, every other
\* directory lies in a directory of a smaller number, and os.walk lists
\* the subdirectories of a directory in the order of their numbers (any
\* order os.listdir can give is the order of some numbering).  A directory
\* is described by its parent and the manifests among its files.
Trees ==
    UNION {[1..n -> [parent : 0..(n - 1), files : SUBSET Manifests]] : n \in 1..MaxDirs}

WellFormed(t) ==
    /\ t[1].parent = 0
    /\ \A i \in 2..Len(t) : t[i].parent \in 1..(i - 1)

RECURSIVE Depth(_, _)
Depth(t, d) == IF d = 1 THEN 0 ELSE 1 + Depth(t, t[d].parent)

RECURSIVE WalkFrom(_, _)
RECURSIVE WalkDirs(_, _, _)
\* os.walk(start_path), top-down: a directory, then the walk of each of
\* its subdirectories in turn.
WalkFrom(t, d) == <<d>> \o WalkDirs(t, d, d + 1)

\* The walks of the subdirectories of d numbered k and above.
WalkDirs(t, d, k) ==
    IF k > Len(t) THEN << >>
    ELSE (IF t[k].parent = d THEN WalkFrom(t, k) ELSE << >>) \o WalkDirs(t, d, k + 1)

RECURSIVE FirstWith(_, _)
\* The first directory of a walk that holds a manifest, None if none does.
FirstWith(t, walk) ==
    IF walk = << >> THEN None
    ELSE IF t[Head(walk)].files /= {} THEN Head(walk)
    ELSE FirstWith(t, Tail(walk))

\* find_project_root(project_dir)
find_project_root(t) == FirstWith(t, WalkFrom(t, 1))

\* execution_cwd = find_project_root(project_dir); without one the
\* request fails.
find_root ==
    /\ detected.stage = "none"
    /\ project.dirs /= << >>
    /\ LET cwd == find_project_root(project.dirs)
       IN  detected' = IF cwd = None
                       THEN [stage |-> "failed", cwd |-> None,
                             error |-> "no_project_root"]
                       ELSE [stage |-> "root", cwd |-> cwd]
    /\ UNCHANGED <<server, base_dir, written, project>>

----------------------------------------------------------------------------
(* The detection of the commands in run_project *)

\* The tools the run-command pattern for README.md matches.
Tools == {"streamlit", "npm", "flask", "uvicorn", "python"}

\* The run commands a README.md can hold in backticks: none, or one of a
\* tool, with or without a port flag of its own.
ReadmeRuns ==
    {NoCommand} \cup
    {Command(t, "readme", ps) : t \in Tools, ps \in {<< >>, <<"own">>}}

\* The install commands a README.md can hold in backticks.
ReadmeInstalls == {NoCommand} \cup {Command(t, "readme", << >>) : t \in {"pip", "npm"}}

\* README.md: absent, not readable as UTF-8, or read.
Readmes ==
    {NoReadme, [state |-> "unreadable", install |-> NoCommand, run |-> NoCommand]}
    \cup {[state |-> "read", install |-> i, run |-> r] :
             i \in ReadmeInstalls, r \in ReadmeRuns}

Frameworks == {"streamlit", "flask", "fastapi"}

\* os.listdir restricted to the .py files, in the order it lists them.
PyListings ==
    {<< >>, <<"main.py">>, <<"tool.py">>, <<"main.py", "tool.py">>,
     <<"tool.py", "main.py">>}

\* package.json: not parseable, or its "scripts" with dev and start or not.
ScriptSets ==
    {[valid |-> FALSE, names |-> {}]}
    \cup {[valid |-> TRUE, names |-> n] : n \in SUBSET {"dev", "start", "build"}}

Contents ==
    [readme : Readmes, reqs : SUBSET Frameworks, py_files : PyListings,
     scripts : ScriptSets]

\* The port flag the README branch appends to a run command that names a
\* framework tool and has no port flag: --server.port for streamlit, --port
\* for flask and uvicorn; nothing for any other command.
readme_run(cmd) ==
    IF cmd.tool \in {"streamlit", "flask", "uvicorn"} /\ cmd.ports = << >>
    THEN Command(cmd.tool, cmd.file, <<"allocated">>)
    ELSE cmd

\* The first of main.py, app.py, run.py, server.py that is listed, else the
\* first .py file.
main_file(py_files) ==
    IF \E i \in DOMAIN py_files : py_files[i] = "main.py" THEN "main.py"
    ELSE py_files[1]

\* The run command the fallback derives from requirements.txt.
python_run(reqs, py_files) ==
    IF "streamlit" \in reqs
    THEN IF py_files /= << >>
         THEN Command("streamlit", py_files[1], <<"allocated">>)
         ELSE NoCommand
    ELSE IF "flask" \in reqs THEN Command("flask", "none", <<"allocated">>)
    ELSE IF "fastapi" \in reqs THEN Command("uvicorn", "main:app", <<"allocated">>)
    ELSE IF py_files /= << >> THEN Command("python", main_file(py_files), << >>)
    ELSE NoCommand

\* Variant of npm_run: start is preferred.
npm_run_start_first(names) ==
    IF "start" \in names THEN Command("npm", "start", << >>)
    ELSE IF "dev" \in names THEN Command("npm", "dev", << >>)
    ELSE NoCommand

\* The run command the fallback derives from the scripts of package.json.
npm_run(names) ==
    IF "dev" \in names THEN Command("npm", "dev", << >>)
    ELSE IF "start" \in names THEN Command("npm", "start", << >>)
    ELSE NoCommand

\* The outcome of a detection: the stage it ended in, the execution
\* directory, the commands, whether env holds PORT with the allocated
\* port, and the error.
Detection(stage, cwd, install, run, env_port, error) ==
    [stage |-> stage, cwd |-> cwd, install |-> install, run |-> run,
     env_port |-> env_port, error |-> error]

\* The detection of run_project after find_project_root: the commands of
\* README.md if there is one, then the fallback on the manifests for what
\* is missing, then the check that there is a run command.
detect_commands ==
    /\ detected.stage = "root"
    /\ LET cwd == detected.cwd
           files == project.dirs[cwd].files
           c == project.content
           read == c.readme.state = "read"
           install1 == IF read THEN c.readme.install ELSE NoCommand
           run1 == IF read THEN readme_run(c.readme.run) ELSE NoCommand
           env1 == read /\ install1.tool = "npm"
           fallback == install1 = NoCommand \/ run1 = NoCommand
           python == fallback /\ "requirements.txt" \in files
           node == fallback /\ ~python /\ "package.json" \in files
           derive == (python \/ node) /\ run1 = NoCommand
           install2 == IF install1 /= NoCommand THEN install1
                       ELSE IF python THEN Command("pip", "requirements.txt", << >>)
                       ELSE IF node THEN Command("npm", "install", << >>)
                       ELSE NoCommand
           run2 == IF ~derive THEN run1
                   ELSE IF python THEN python_run(c.reqs, c.py_files)
                   ELSE npm_run(c.scripts.names)
           env2 == node \/ env1
       IN  detected' =
             IF node /\ derive /\ ~c.scripts.valid
             THEN Detection("failed", cwd, install2, NoCommand, env1, "json_error")
             ELSE IF run2 = NoCommand
             THEN Detection("failed", cwd, install2, run2, env2, "no_run_command")
             ELSE Detection("done", cwd, install2, run2, env2, "none")
    /\ UNCHANGED <<server, base_dir, written, project>>

----------------------------------------------------------------------------
(* Port allocator *)

\* Variant of get_next_available_port: the counter is not incremented.
get_next_available_port_stuck(np) == np

\* get_next_available_port: returns next_port and leaves next_port + 1.
get_next_available_port(np) == np + 1

----------------------------------------------------------------------------
(* POST /api/run *)

\* Variant of Reap: no entry is swept.
ReapSkipped(reg, ch) == reg

\* The orphan sweep at the start of run_project: every entry whose recorded
\* child has exited goes through cleanup_process (no kill: poll() is not None).
Reap(reg, ch) ==
    LET dead == {x \in DOMAIN reg :
                    reg[x].process /= None /\ ~poll_is_None(ch, reg[x].process)}
    IN  [x \in DOMAIN reg \ dead |-> reg[x]]

\* What materialization and detection can end in: the project is written
\* and its commands resolved, write_project_to_disk raises, no directory
\* holds a manifest, or no run command can be derived.
StartOutcomes == {"ok", "write_error", "no_project_root", "no_run_command"}

\* The detection failures: find_project_root and the command detection
\* raise HTTPException(status_code=400, ...).
DetectionFailures == {"no_project_root", "no_run_command"}

\* The status of the exception a failed set-up raises inside the try block:
\* 400 from the detection, no status on any other exception.
RaisedStatus(outcome) == IF outcome \in DetectionFailures THEN 400 ELSE None

\* `except Exception as e: ... raise HTTPException(status_code=500,
\* detail=str(e))` at the end of run_project: HTTPException is an Exception,
\* so the status that was raised is replaced.
SetupFailureResp(r, outcome, raised) ==
    Resp("run", r, FALSE, 500, outcome, None, << >>)

\* run_project up to time.sleep(3).  Every failure before the sleep is an
\* exception inside the try block: the handler at the end of run_project
\* removes temp_dir and answers.  A run that is registered has put the
\* first line on its log_queue and started its supervisor, which puts the
\* second one before it runs the install command.
run_project_start(outcome) ==
    /\ LoopFree
    /\ Len(issued) < MaxRuns
    /\ Len(issued) + 1 \in observe.runs
    /\ LET r == Len(issued) + 1
           port == next_port
           reaped == Reap(active_runs, child)
       IN  /\ issued' = Append(issued, port)
           /\ next_port' = get_next_available_port(next_port)
           /\ IF outcome = "ok"
              THEN /\ active_runs' =
                         [x \in DOMAIN reaped \cup {r} |->
                             IF x = r THEN [process |-> None, port |-> port]
                                      ELSE reaped[x]]
                   /\ workdir' = [workdir EXCEPT ![r] = "exists"]
                   /\ sup' = [sup EXCEPT ![r] = "install"]
                   /\ inst' = [inst EXCEPT ![r] = "running"]
                   /\ Put(r, <<"system", "install">>)
                   /\ loop' = [op |-> "run_sleep", rid |-> r]
                   /\ resp' = resp
              ELSE /\ active_runs' = reaped
                   /\ workdir' = [workdir EXCEPT ![r] = "removed"]
                   /\ sup' = sup
                   /\ loop' = Idle
                   /\ resp' = SetupFailureResp(r, outcome, RaisedStatus(outcome))
                   /\ UNCHANGED <<inst, logq, napp>>
    /\ UNCHANGED <<child, observe, pure, rd, nout, streams>>

\* Variant of ProcessStarted: the handle is not polled.
ProcessStartedNoPoll(reg, ch, r) == reg[r].process /= None

\* Variant of ProcessStarted: a handle that is not set counts as alive.
ProcessStartedNoHandleTest(reg, ch, r) ==
    reg[r].process = None \/ poll_is_None(ch, reg[r].process)

\* Variant of ProcessStarted: a registered run counts as started.
ProcessStartedUnchecked(reg, ch, r) == TRUE

\* `process and process.poll() is None` after the grace period.
ProcessStarted(reg, ch, r) ==
    /\ reg[r].process /= None
    /\ poll_is_None(ch, reg[r].process)

\* The check that follows time.sleep(3).
run_project_check ==
    /\ ~Returned
    /\ loop.op = "run_sleep"
    /\ LET r == loop.rid
       IN  IF r \notin DOMAIN active_runs
           THEN /\ loop' = [op |-> "run_fail", rid |-> r]
                /\ resp' = resp
           ELSE IF ProcessStarted(active_runs, child, r)
           THEN /\ loop' = Idle
                /\ resp' = Resp("run", r, TRUE, 200, "started", issued[r], << >>)
           ELSE /\ loop' = [op |-> "run_cleanup", rid |-> r]
                /\ resp' = resp
    /\ UNCHANGED <<active_runs, next_port, child, sup, workdir, issued, inst, observe, pure, logq, napp, rd, nout, streams>>

\* cleanup_process of the failed run, up to the kill: the handle is read
\* from the entry and, if its child has not exited, killed.
run_project_cleanup_kill ==
    /\ ~Returned
    /\ loop.op = "run_cleanup"
    /\ LET r == loop.rid
           T == IF r \in DOMAIN active_runs /\ HandleAlive(active_runs, child, r)
                THEN {active_runs[r].process} ELSE {}
       IN  /\ \E out \in [T -> KillOutcomes] : child' = AfterKills(child, T, out)
           /\ loop' = [op |-> "run_del", rid |-> r]
    /\ UNCHANGED <<active_runs, next_port, sup, workdir, resp, issued, inst, observe, pure, logq, napp, rd, nout, streams>>

\* cleanup_process of the failed run: del active_runs[process_id].
run_project_cleanup_del ==
    /\ ~Returned
    /\ loop.op = "run_del"
    /\ LET r == loop.rid
       IN  /\ active_runs' = CleanupDel(active_runs, r)
           /\ workdir' = cleanup_temp_dir(workdir, r)
           /\ loop' = [op |-> "run_fail", rid |-> r]
    /\ UNCHANGED <<next_port, child, sup, resp, issued, inst, observe, pure, logq, napp, rd, nout, streams>>

\* shutil.rmtree(temp_dir) can raise only while the install command is still
\* writing into the directory; the request fails with 500 either way.
RmtreeOutcomes(r) ==
    IF sup[r] = "install" THEN {"removed", "error"} ELSE {"removed"}

\* The exception handler of run_project: remove temp_dir, answer 500.
run_project_fail ==
    /\ ~Returned
    /\ loop.op = "run_fail"
    /\ LET r == loop.rid
       IN  /\ \E rm \in RmtreeOutcomes(r) :
                 workdir' = [workdir EXCEPT ![r] =
                                IF @ = "exists" /\ rm = "removed"
                                THEN "removed" ELSE @]
           /\ resp' = Resp("run", r, FALSE, 500, "failed_to_start", None, << >>)
           /\ loop' = Idle
    /\ UNCHANGED <<active_runs, next_port, child, sup, issued, inst, observe, pure, logq, napp, rd, nout, streams>>

----------------------------------------------------------------------------
(* run_in_background: the supervisor thread of run r *)

\* subprocess.run(install_command, check=True) returns.  A registered run
\* always has an install command: its execution directory holds
\* requirements.txt or package.json, and the fallback detection sets the
\* install command for either.
install_ok(r) ==
    /\ ~Returned
    /\ sup[r] = "install"
    /\ sup' = [sup EXCEPT ![r] = "spawn"]
    /\ inst' = [inst EXCEPT ![r] = "ok"]
    /\ \E stderr \in BOOLEAN :
          Put(r, IF stderr THEN <<"install", "install">> ELSE <<"install">>)
    /\ UNCHANGED <<active_runs, next_port, child, workdir, loop, resp, issued,
                   observe, pure, rd, nout, streams>>

\* Variant of AfterInstallFail: the exit status is ignored.
AfterInstallFailGoesOn == "spawn"

\* Where the supervisor is after CalledProcessError: past its except and
\* finally blocks, at its end.
AfterInstallFail == "done"

\* The lines the except and finally blocks of the supervisor put after a
\* CalledProcessError or FileNotFoundError, each if the run is tracked.
FailureLines(reg, r) == IfTracked(reg, r, <<"error", "finished">>)

\* subprocess.run raises CalledProcessError: the run command is not spawned.
install_fail(r) ==
    /\ ~Returned
    /\ sup[r] = "install"
    /\ sup' = [sup EXCEPT ![r] = AfterInstallFail]
    /\ inst' = [inst EXCEPT ![r] = "failed"]
    /\ Put(r, FailureLines(active_runs, r))
    /\ UNCHANGED <<active_runs, next_port, child, workdir, loop, resp, issued,
                   observe, pure, rd, nout, streams>>

\* The three "[run] ..." lines, then subprocess.Popen(run_command,
\* shell=True, cwd=execution_cwd): raises FileNotFoundError when the
\* directory is gone, spawns the shell otherwise.
popen(r) ==
    /\ ~Returned
    /\ sup[r] = "spawn"
    /\ IF workdir[r] = "exists"
       THEN /\ child' = [child EXCEPT ![r] = "alive"]
            /\ sup' = [sup EXCEPT ![r] = "record"]
            /\ Put(r, <<"run", "run", "run">>)
       ELSE /\ child' = child
            /\ sup' = [sup EXCEPT ![r] = "done"]
            /\ Put(r, <<"run", "run", "run">> \o FailureLines(active_runs, r))
    /\ UNCHANGED <<active_runs, next_port, workdir, loop, resp, issued, inst,
                   observe, pure, rd, nout, streams>>

\* stdout_thread.start(); stderr_thread.start()
StartReaders(r) ==
    rd' = [rd EXCEPT ![r] = [p \in Pipes |-> IF observe.logs THEN "reading" ELSE "off"]]

\* if process_id in active_runs: when it is not, the handle is not recorded
\* and the readers are started.
record_check(r) ==
    /\ ~Returned
    /\ sup[r] = "record"
    /\ IF r \in DOMAIN active_runs
       THEN /\ sup' = [sup EXCEPT ![r] = "record_set"]
            /\ rd' = rd
       ELSE /\ sup' = [sup EXCEPT ![r] = "wait"]
            /\ StartReaders(r)
    /\ UNCHANGED <<active_runs, next_port, child, workdir, loop, resp, issued,
                   inst, observe, pure, logq, napp, nout, streams>>

\* Variant of RecordHandle: the handle is not stored.
RecordHandleSkipped(reg, r) == reg

\* active_runs[process_id]["process"] = proc
RecordHandle(reg, r) == [reg EXCEPT ![r].process = r]

\* The assignment, then the start of the readers.  The assignment is a
\* KeyError if the entry was deleted since the check: the thread ends in
\* `except Exception`, whose put and that of the finally block are skipped
\* because the run is not tracked, and the readers are never started.
record_set(r) ==
    /\ ~Returned
    /\ sup[r] = "record_set"
    /\ IF r \in DOMAIN active_runs
       THEN /\ active_runs' = RecordHandle(active_runs, r)
            /\ sup' = [sup EXCEPT ![r] = "wait"]
            /\ StartReaders(r)
       ELSE /\ active_runs' = active_runs
            /\ sup' = [sup EXCEPT ![r] = "done"]
            /\ rd' = rd
    /\ UNCHANGED <<next_port, child, workdir, loop, resp, issued, inst, observe, pure,
                   logq, napp, nout, streams>>

\* proc.wait() returns once the child has exited; the joins give each
\* reader at most two seconds; the finally block puts its line if the run
\* is tracked.
proc_wait(r) ==
    /\ ~Returned
    /\ sup[r] = "wait"
    /\ child[r] = "exited"
    /\ sup' = [sup EXCEPT ![r] = "done"]
    /\ Put(r, IfTracked(active_runs, r, <<"finished">>))
    /\ UNCHANGED <<active_runs, next_port, child, workdir, loop, resp, issued,
                   inst, observe, pure, rd, nout, streams>>

----------------------------------------------------------------------------
(* The child processes *)

\* The run command exits on its own.
child_exit(r) ==
    /\ ~Returned
    /\ child[r] = "alive"
    /\ child' = [child EXCEPT ![r] = "exited"]
    /\ UNCHANGED <<active_runs, next_port, sup, workdir, loop, resp, issued, inst, observe, pure, logq, napp, rd, nout, streams>>

\* A delivered kill takes effect.
child_killed(r) ==
    /\ ~Returned
    /\ child[r] = "dying"
    /\ child' = [child EXCEPT ![r] = "exited"]
    /\ UNCHANGED <<active_runs, next_port, sup, workdir, loop, resp, issued, inst, observe, pure, logq, napp, rd, nout, streams>>

----------------------------------------------------------------------------
(* stream_reader: the two reader threads of run r *)

\* pipe.readline() returns a line the child has printed, and the reader
\* checks `process_id in active_runs`: the line is dropped if the run is
\* not tracked.
reader_read(r, p) ==
    /\ ~Returned
    /\ rd[r][p] = "reading"
    /\ child[r] /= "none"
    /\ nout[r] < MaxLines
    /\ nout' = [nout EXCEPT ![r] = @ + 1]
    /\ rd' = [rd EXCEPT ![r][p] =
                 IF r \in DOMAIN active_runs THEN "put" ELSE "reading"]
    /\ UNCHANGED <<active_runs, next_port, child, sup, workdir, loop, resp,
                   issued, inst, observe, pure, logq, napp, streams>>

\* log_queue.put(log_message) of a line that passed the check.
reader_put(r, p) ==
    /\ ~Returned
    /\ rd[r][p] = "put"
    /\ Put(r, <<p>>)
    /\ rd' = [rd EXCEPT ![r][p] = "reading"]
    /\ UNCHANGED <<active_runs, next_port, child, sup, workdir, loop, resp,
                   issued, inst, observe, pure, nout, streams>>

\* pipe.readline() returns '': the child has exited and the pipe is closed.
reader_eof(r, p) ==
    /\ ~Returned
    /\ rd[r][p] = "reading"
    /\ child[r] = "exited"
    /\ rd' = [rd EXCEPT ![r][p] = "eof"]
    /\ UNCHANGED <<active_runs, next_port, child, sup, workdir, loop, resp,
                   issued, inst, observe, pure, logq, napp, nout, streams>>

----------------------------------------------------------------------------
(* GET /api/logs/{process_id} *)

\* An event of a log stream: its 'type', and the line it carries.
Event(type, n, kind) == [type |-> type, n |-> n, kind |-> kind]

NoEvent == Event("none", 0, "none")

\* "Process not found or already terminated.", sent with 'type': 'log'.
NotFoundEvent == Event("log", 0, "not_found")

\* 'type': 'done', "Process terminated."
DoneEvent == Event("done", 0, "done")

\* stream_logs: 404 for an id that is not in active_runs, a
\* StreamingResponse over a new log_generator otherwise.
stream_logs(r) ==
    /\ LoopFree
    /\ observe.logs
    /\ Len(streams) < observe.streams
    /\ IF r \notin DOMAIN active_runs
       THEN /\ resp' = Resp("logs", r, FALSE, 404, "process_not_found", None, << >>)
            /\ streams' = streams
       ELSE /\ resp' = Resp("logs", r, TRUE, 200, "streaming", None, << >>)
            /\ streams' = Append(streams, [st |-> "open", rid |-> r, ev |-> NoEvent])
    /\ UNCHANGED <<active_runs, next_port, child, sup, workdir, loop, issued,
                   inst, observe, pure, logq, napp, rd, nout>>

\* Variant of log_generator_poll: an empty queue ends the stream.
log_generator_poll_done_on_empty(reg, ch, q, r) ==
    IF r \notin DOMAIN reg THEN "not_found"
    ELSE IF q /= << >> THEN "line"
    ELSE "done"

\* Variant of log_generator_poll: the run is not looked up.
log_generator_poll_no_lookup(reg, ch, q, r) ==
    IF q /= << >> THEN "line"
    ELSE IF r \in DOMAIN reg /\ reg[r].process /= None
            /\ ~poll_is_None(ch, reg[r].process) THEN "done"
    ELSE "wait"

\* Variant of log_generator_poll: the exit of the child is not looked at.
log_generator_poll_never_done(reg, ch, q, r) ==
    IF r \notin DOMAIN reg THEN "not_found"
    ELSE IF q /= << >> THEN "line"
    ELSE "wait"

\* One iteration of the loop of log_generator: the run is not in
\* active_runs; log_queue.get(timeout=1) returns a line; the get times out
\* and the recorded child has exited; the get times out otherwise.
log_generator_poll(reg, ch, q, r) ==
    IF r \notin DOMAIN reg THEN "not_found"
    ELSE IF q /= << >> THEN "line"
    ELSE IF reg[r].process /= None /\ ~poll_is_None(ch, reg[r].process) THEN "done"
    ELSE "wait"

\* Variant of log_generator_finally: the run is cleaned up.
log_generator_finally_cleanup(reg, r) == [x \in DOMAIN reg \ {r} |-> reg[x]]

\* The finally block of log_generator writes to the server log only.
log_generator_finally(reg, r) == reg

\* One iteration of log_generator for stream s.  The generator holds the
\* event loop from where it is resumed to its next yield: the get blocks
\* the loop's thread, and after a timeout with nothing to report the next
\* iteration follows without an await.  A yield hands the event to the
\* response and frees the loop; after the 'not found' and the 'done' event
\* the generator ends.
log_generator(s) ==
    /\ ~Returned
    /\ s \in 1..Len(streams)
    /\ streams[s].st = "open"
    /\ loop = Idle \/ loop = [op |-> "log_poll", rid |-> s]
    /\ LET r == streams[s].rid
           out == log_generator_poll(active_runs, child, logq[r], r)
       IN  \/ /\ out = "not_found"
              /\ streams' = [streams EXCEPT ![s].st = "closed",
                                              ![s].ev = NotFoundEvent]
              /\ active_runs' = log_generator_finally(active_runs, r)
              /\ loop' = Idle
              /\ logq' = logq
           \/ /\ out = "line"
              /\ LET got == queue_get(logq[r])
                 IN  /\ streams' = [streams EXCEPT ![s].ev =
                                       Event("log", got.line.n, got.line.kind)]
                     /\ logq' = [logq EXCEPT ![r] = got.rest]
              /\ active_runs' = active_runs
              /\ loop' = Idle
           \/ /\ out = "done"
              /\ streams' = [streams EXCEPT ![s].st = "closed",
                                              ![s].ev = DoneEvent]
              /\ active_runs' = log_generator_finally(active_runs, r)
              /\ loop' = Idle
              /\ logq' = logq
           \/ /\ out = "wait"
              /\ loop' = [op |-> "log_poll", rid |-> s]
              /\ UNCHANGED <<streams, active_runs, logq>>
    /\ UNCHANGED <<next_port, child, sup, workdir, resp, issued, inst, observe, pure,
                   napp, rd, nout>>

\* The client of stream s goes away: the server closes the generator where
\* it is suspended, at a yield, and its finally block runs.
stream_cancel(s) ==
    /\ LoopFree
    /\ s \in 1..Len(streams)
    /\ streams[s].st = "open"
    /\ streams' = [streams EXCEPT ![s].st = "closed"]
    /\ active_runs' = log_generator_finally(active_runs, streams[s].rid)
    /\ UNCHANGED <<next_port, child, sup, workdir, loop, resp, issued, inst,
                   observe, pure, logq, napp, rd, nout>>

----------------------------------------------------------------------------
(* POST /api/stop *)

\* process.kill(); process.wait(timeout=1) inside `try ... except: pass`:
\* the kill raises, the child is reaped within the wait, or the wait times out.
StopOutcomes == {"kill_error", "reaped", "wait_timeout"}

StopChild(ch, h, out) ==
    [ch EXCEPT ![h] = IF out = "kill_error" THEN @
                      ELSE IF out = "reaped" THEN "exited"
                      ELSE "dying"]

\* Variant of NotFoundResp: an unknown id is an error.
NotFoundRespRaises(op, r) ==
    Resp(op, r, FALSE, 404, "process_not_found", None, << >>)

\* The answer to a stop or force-stop request for an id not in active_runs.
NotFoundResp(op, r) ==
    Resp(op, r, FALSE, 200, "not_found_or_already_stopped", None, << >>)

stop_project(r) ==
    /\ LoopFree
    /\ IF r \notin DOMAIN active_runs
       THEN /\ resp' = NotFoundResp("stop", r)
            /\ UNCHANGED <<active_runs, child>>
       ELSE LET T == IF HandleAlive(active_runs, child, r)
                     THEN {active_runs[r].process} ELSE {}
            IN  /\ IF T = {}
                   THEN child' = child
                   ELSE \E out \in StopOutcomes :
                            child' = StopChild(child, active_runs[r].process, out)
                /\ active_runs' = StopDel(active_runs, r)
                /\ resp' = Signalled(Resp("stop", r, TRUE, 200, "stopped", None,
                                          Sent(T, StopSignals)), T)
    /\ UNCHANGED <<next_port, sup, workdir, loop, issued, inst, observe, pure, logq, napp, rd, nout, streams>>

----------------------------------------------------------------------------
(* The psutil sweep of force_stop_project and kill_processes_on_port *)

\* The children that listen on port p: each child was started with the port
\* issued to its run.
OnPort(ch, p) == {x \in 1..Len(issued) : ch[x] = "alive" /\ issued[x] = p}

\* psutil.Process(pid).kill() on the children in K.
PortKill(ch, K) == [x \in Runs |-> IF x \in K THEN "dying" ELSE ch[x]]

\* process_iter runs to its end, or raises on the way.
EnumOutcomes == {"ok", "enum_error"}

----------------------------------------------------------------------------
(* POST /api/force-stop *)

\* The sweep of the run's port (any of the processes on it may be killed,
\* the others are skipped or missed by an enumeration that raised), then
\* cleanup_process(process_id): kill the recorded child if it has not
\* exited, delete the entry, leave temp_dir.
force_stop_project(r) ==
    /\ LoopFree
    /\ IF r \notin DOMAIN active_runs
       THEN /\ resp' = NotFoundResp("force_stop", r)
            /\ UNCHANGED <<active_runs, child, workdir>>
       ELSE \E K \in SUBSET OnPort(child, active_runs[r].port) :
            LET swept == PortKill(child, K)
                T == IF HandleAlive(active_runs, swept, r)
                     THEN {active_runs[r].process} ELSE {}
            IN  /\ \E out \in [T -> KillOutcomes] :
                      child' = AfterKills(swept, T, out)
                /\ active_runs' = CleanupDel(active_runs, r)
                /\ workdir' = cleanup_temp_dir(workdir, r)
                /\ resp' = Signalled(Resp("force_stop", r, TRUE, 200,
                                          "force_stopped", None,
                                          Sent(T, CleanupSignals)), T)
    /\ UNCHANGED <<next_port, sup, loop, issued, inst, observe, pure, logq, napp, rd, nout, streams>>

----------------------------------------------------------------------------
(* POST /api/kill-port *)

\* Variant of KillPortResp: every failure is swallowed.
KillPortRespAlwaysOk(p, enum, K) ==
    Resp("kill_port", None, TRUE, 200, "killed", Cardinality(K), << >>)

\* The answer of kill_processes_on_port: 400 without a port, 500 when the
\* enumeration raised, success with the killed processes otherwise.
KillPortResp(p, enum, K) ==
    IF p = None
    THEN Resp("kill_port", None, FALSE, 400, "port_required", None, << >>)
    ELSE IF enum = "enum_error"
    THEN Resp("kill_port", None, FALSE, 500, "enum_error", None, << >>)
    ELSE Resp("kill_port", None, TRUE, 200, "killed", Cardinality(K), << >>)

\* The ports a request may name: none, and every port issued so far.
PortInputs == {None} \cup {issued[i] : i \in 1..Len(issued)}

\* Variant of KillPortRegistry: the runs of the port are forgotten.
KillPortRegistryForgets(reg, p) ==
    [x \in {y \in DOMAIN reg : reg[y].port /= p} |-> reg[x]]

\* active_runs across kill_processes_on_port: the handler works on the
\* processes psutil lists and makes no access to active_runs.
KillPortRegistry(reg, p) == reg

kill_processes_on_port(p, enum) ==
    /\ LoopFree
    /\ p \in PortInputs
    /\ \E K \in SUBSET (IF p = None THEN {} ELSE OnPort(child, p)) :
          /\ child' = PortKill(child, K)
          /\ resp' = KillPortResp(p, enum, K)
    /\ active_runs' = KillPortRegistry(active_runs, p)
    /\ UNCHANGED <<next_port, sup, workdir, loop, issued, inst, observe, pure, logq, napp, rd, nout, streams>>

----------------------------------------------------------------------------
(* POST /api/cleanup-all and POST /api/reset-server *)

\* Variant of LiveHandles: no handle is found alive.
LiveHandlesNone(reg, ch) == {}

\* The recorded handles whose child has not exited: those that
\* cleanup_process and reset_server call kill() on.
LiveHandles(reg, ch) ==
    {reg[x].process : x \in {y \in DOMAIN reg : HandleAlive(reg, ch, y)}}

\* len(process_ids) in the message of cleanup_all.
CleanedCount(ids) == Cardinality(ids)

\* cleanup_process on every id of list(active_runs.keys()).
cleanup_all ==
    /\ LoopFree
    /\ LET ids == DOMAIN active_runs
           T == LiveHandles(active_runs, child)
       IN  /\ \E out \in [T -> KillOutcomes] : child' = AfterKills(child, T, out)
           /\ active_runs' = << >>
           /\ workdir' = workdir
           /\ resp' = Signalled(Resp("cleanup_all", None, TRUE, 200, "cleaned",
                                     CleanedCount(ids), Sent(T, CleanupSignals)), T)
    /\ UNCHANGED <<next_port, sup, loop, issued, inst, observe, pure, logq, napp, rd, nout, streams>>

\* Variant of Clear: the entries are kept.
ClearKeepsRuns(reg) == reg

\* active_runs.clear()
Clear(reg) == << >>

\* reset_server: process.kill() on every recorded handle (Popen.kill sends
\* nothing to a child that has exited), active_runs.clear(), next_port = 8002.
reset_server ==
    /\ LoopFree
    /\ LET T == LiveHandles(active_runs, child)
       IN  /\ \E out \in [T -> KillOutcomes] : child' = AfterKills(child, T, out)
           /\ resp' = Signalled(Resp("reset", None, TRUE, 200, "reset", None,
                                     Sent(T, CleanupSignals)), T)
    /\ active_runs' = Clear(active_runs)
    /\ next_port' = BasePort
    /\ UNCHANGED <<sup, workdir, loop, issued, inst, observe, pure, logq, napp, rd, nout, streams>>

----------------------------------------------------------------------------
(* GET /api/debug/active-runs *)

\* "active_processes": list(active_runs.keys())
debug_active_runs(reg) == DOMAIN reg

----------------------------------------------------------------------------
(* The system *)

\* The response leaves the server.
handler_return ==
    /\ Returned
    /\ resp' = NoResp
    /\ UNCHANGED <<active_runs, next_port, child, sup, workdir, loop, issued, inst, observe, pure, logq, napp, rd, nout, streams>>

Handlers ==
    \/ \E o \in StartOutcomes : run_project_start(o)
    \/ run_project_check
    \/ run_project_cleanup_kill
    \/ run_project_cleanup_del
    \/ run_project_fail
    \/ \E r \in Runs : stop_project(r)
    \/ \E r \in Runs : force_stop_project(r)
    \/ \E p \in {None} \cup (BasePort..(BasePort + MaxRuns)), e \in EnumOutcomes :
           kill_processes_on_port(p, e)
    \/ cleanup_all
    \/ reset_server

Threads ==
    \/ \E r \in Runs : install_ok(r)
    \/ \E r \in Runs : install_fail(r)
    \/ \E r \in Runs : popen(r)
    \/ \E r \in Runs : record_check(r)
    \/ \E r \in Runs : record_set(r)
    \/ \E r \in Runs : proc_wait(r)

Children ==
    \/ \E r \in Runs : child_exit(r)
    \/ \E r \in Runs : child_killed(r)

Next ==
    \/ handler_return
    \/ Handlers
    \/ Threads
    \/ Children

Spec == Init /\ [][Next]_vars

Readers ==
    \/ \E r \in Runs, p \in Pipes : reader_read(r, p)
    \/ \E r \in Runs, p \in Pipes : reader_put(r, p)
    \/ \E r \in Runs, p \in Pipes : reader_eof(r, p)

\* The streams of a specification that follows one subscriber more.
StreamIds == 1..(MaxStreams + 1)

Streams ==
    \/ \E r \in Runs : stream_logs(r)
    \/ \E s \in StreamIds : log_generator(s)
    \/ \E s \in StreamIds : stream_cancel(s)

\* One run with its log buffer, under creation, stop and log-stream requests.
NextLog ==
    \/ handler_return
    \/ \E o \in StartOutcomes : run_project_start(o)
    \/ run_project_check
    \/ run_project_cleanup_kill
    \/ run_project_cleanup_del
    \/ run_project_fail
    \/ \E r \in Runs : stop_project(r)
    \/ Threads
    \/ Children
    \/ Readers
    \/ Streams

SpecLog == InitLog /\ [][NextLog]_vars

\* One run with its log buffer and one subscriber more than SpecLog.
InitSubscribers ==
    /\ Start
    /\ NoRequest
    /\ observe = [runs |-> {1}, logs |-> TRUE, streams |-> MaxStreams + 1]

SpecSubscribers == InitSubscribers /\ [][NextLog]_vars

\* Every run with its log buffer, under creation, stop and force-stop
\* requests, without subscribers.
InitStop ==
    /\ Start
    /\ NoRequest
    /\ observe = [runs |-> Runs, logs |-> TRUE, streams |-> 0]

NextStop ==
    \/ handler_return
    \/ \E o \in StartOutcomes : run_project_start(o)
    \/ run_project_check
    \/ run_project_cleanup_kill
    \/ run_project_cleanup_del
    \/ run_project_fail
    \/ \E r \in Runs : stop_project(r)
    \/ \E r \in Runs : force_stop_project(r)
    \/ Threads
    \/ Children
    \/ Readers

SpecStop == InitStop /\ [][NextStop]_vars

\* SpecLog with the scheduling of the event loop: a handler that has built
\* its response returns it; a generator that waits on the buffer holds the
\* thread of the event loop and goes on by itself, and one that is
\* suspended at a yield is resumed by the loop, which serves what is ready
\* in the order it became ready, whenever the loop is free.
SpecLogFair ==
    /\ SpecLog
    /\ WF_vars(handler_return)
    /\ \A s \in 1..MaxStreams : SF_vars(log_generator(s))

\* write_project_to_disk(request.fileSystem, project_dir) on any tree.
InitWrite ==
    /\ Start
    /\ NoRequest
    /\ observe = [runs |-> {}, logs |-> FALSE, streams |-> 0]

NextWrite ==
    \/ \E name \in Names, type \in EntryTypes : write_entry(name, type)
    \/ write_children
    \/ write_next

SpecWrite == InitWrite /\ [][NextWrite]_vars

\* find_project_root on any materialized tree.
InitRoot ==
    /\ Start
    /\ observe = [runs |-> {}, logs |-> FALSE, streams |-> 0]
    /\ base_dir = RootDir
    /\ written = NoEntry
    /\ project \in {[dirs |-> t, content |-> Bare] : t \in {x \in Trees : WellFormed(x)}}
    /\ detected = NoDetection

NextRoot == find_root

SpecRoot == InitRoot /\ [][NextRoot]_vars

\* The detection on any content of a project directory that holds a
\* manifest.
InitDetect ==
    /\ Start
    /\ observe = [runs |-> {}, logs |-> FALSE, streams |-> 0]
    /\ base_dir = RootDir
    /\ written = NoEntry
    /\ project \in {[dirs |-> <<[parent |-> 0, files |-> f]>>, content |-> c] :
                       f \in (SUBSET Manifests) \ {{}}, c \in Contents}
    /\ detected = NoDetection

NextDetect ==
    \/ find_root
    \/ detect_commands

SpecDetect == InitDetect /\ [][NextDetect]_vars

----------------------------------------------------------------------------
(* Claims *)

Teardowns == {"stop", "force_stop"}

\* C1: a run whose recorded child has exited when the grace period ends is
\* never answered with success: the check that follows the sleep goes to the
\* failure path, and every request on the failure path answers a failure for
\* its run, without a URL.
C1_DeadAtGraceEndFails ==
    [][ \A r \in Runs :
          /\ (loop.op = "run_sleep" /\ loop.rid = r /\ loop' /= loop
              /\ r \in DOMAIN active_runs /\ active_runs[r].process /= None
              /\ child[active_runs[r].process] = "exited")
                => (loop'.op = "run_cleanup" /\ loop'.rid = r /\ resp' = NoResp)
          /\ (loop.op \in {"run_cleanup", "run_del", "run_fail"} /\ loop.rid = r
              /\ loop' /= loop)
                => \/ loop'.op \in {"run_del", "run_fail"} /\ loop'.rid = r
                                                          /\ resp' = NoResp
                   \/ loop' = Idle /\ resp'.op = "run" /\ resp'.rid = r
                                   /\ ~resp'.ok /\ resp'.n = None
      ]_vars

\* The creation request is on its failure path and the child it recorded
\* has exited.
C1_Witness ==
    /\ loop.op = "run_cleanup"
    /\ loop.rid \in DOMAIN active_runs
    /\ active_runs[loop.rid].process /= None
    /\ child[active_runs[loop.rid].process] = "exited"

\* C2: no child process is spawned for a run that has left the Registry
\* (the clause of the claim about a run removed after a failed creation).
C2_NoSpawnOutsideRegistry ==
    [][ \A r \in Runs :
          (child[r] /= "alive" /\ child'[r] = "alive") => r \in DOMAIN active_runs
      ]_vars

\* C3 as claimed: over the whole history the ports issued strictly increase.
C3_PortsStrictlyIncrease ==
    \A i, j \in 1..Len(issued) : i < j => issued[i] < issued[j]

\* C3 amended: every allocation returns the counter and increments it, and
\* the counter goes down only in a reset, which sets it back to the first
\* port and empties the Registry.
C3_IncreaseBetweenResets ==
    [][ /\ issued' /= issued =>
              /\ issued' = Append(issued, next_port)
              /\ next_port' = next_port + 1
        /\ issued' = issued =>
              \/ next_port' = next_port
              \/ /\ resp'.op = "reset"
                 /\ next_port' = BasePort
                 /\ active_runs' = << >>
      ]_vars

\* A port has been issued a second time, after a reset.
C3_Witness ==
    \E i, j \in 1..Len(issued) : i < j /\ issued[j] <= issued[i]

\* C4: no two runs in the Registry have the same port; a run is in the
\* Registry for the whole of its creation request after detection.
C4_DistinctPorts ==
    /\ \A a, b \in DOMAIN active_runs :
          a /= b => active_runs[a].port /= active_runs[b].port
    /\ loop.op = "run_sleep" =>
          /\ loop.rid \in DOMAIN active_runs
          /\ active_runs[loop.rid].port = issued[loop.rid]

\* A creation request is waiting while an earlier run is registered.
C4_Witness ==
    /\ loop.op = "run_sleep"
    /\ Cardinality(DOMAIN active_runs) >= 2

\* C5: a stop or force-stop request for an id that is not in the Registry
\* answers the benign not-found result, without an error, and changes
\* neither the Registry, the port counter, any process nor any workdir.
C5_StopUnknownIsBenign ==
    [][ \A r \in Runs :
          (r \notin DOMAIN active_runs /\ (stop_project(r) \/ force_stop_project(r)))
            => /\ resp'.op \in Teardowns /\ resp'.rid = r
               /\ ~resp'.ok
               /\ resp'.code = 200
               /\ resp'.detail = "not_found_or_already_stopped"
               /\ resp'.signals = << >>
               /\ UNCHANGED <<active_runs, next_port, child, workdir>>
      ]_vars

\* A stop request for an unregistered id has returned while a child runs.
C5_Witness ==
    /\ resp.op \in Teardowns
    /\ resp.detail = "not_found_or_already_stopped"
    /\ \E x \in Runs : child[x] = "alive"

\* C6: when a stop or force-stop request returns success, its run id is not
\* in the Registry, nor in the listing of active runs.
C6_StoppedRunAbsent ==
    (resp.op \in Teardowns /\ resp.ok) =>
        /\ resp.rid \notin DOMAIN active_runs
        /\ resp.rid \notin debug_active_runs(active_runs)

\* A stop request has returned success for a run whose child it killed.
C6_Witness ==
    /\ resp.op = "stop"
    /\ resp.ok
    /\ resp.signals /= << >>
    /\ child[resp.rid] \in {"dying", "exited"}

C8_StopAlwaysSucceeds ==
    [][ \A r \in Runs :
          (r \in DOMAIN active_runs /\ (stop_project(r) \/ force_stop_project(r)))
            => /\ r \notin DOMAIN active_runs'
               /\ resp'.op \in Teardowns /\ resp'.rid = r
               /\ resp'.ok
               /\ resp'.code = 200
      ]_vars

\* A teardown has returned success although its kill failed: the child it
\* signalled is still alive.
C8_Witness ==
    /\ resp.op \in Teardowns
    /\ resp.ok
    /\ resp.signals /= << >>
    /\ child[resp.rid] = "alive"

C11_SpawnOnlyAfterInstallOk ==
    \A r \in Runs :
        /\ (child[r] /= "none" \/ sup[r] \in {"spawn", "record", "record_set", "wait"})
              => inst[r] = "ok"
        /\ inst[r] = "failed" => (sup[r] = "done" /\ child[r] = "none")

\* The install of one run has failed and its supervisor has ended, while
\* the child of another run, whose install succeeded, is running.
C11_Witness ==
    \E a, b \in Runs :
        /\ inst[a] = "failed" /\ sup[a] = "done"
        /\ inst[b] = "ok" /\ child[b] = "alive"

\* The error line of run r is on its log_queue.
ErrorBuffered(r) == \E i \in DOMAIN logq[r] : logq[r][i].kind = "error"

\* A log stream on run r has just emitted the run's error line.
ErrorDelivered(r) ==
    \E s \in DOMAIN streams : streams[s].rid = r /\ streams[s].ev.kind = "error"

\* C12: when the install command of a run has failed, the error line is on
\* the run's log buffer and the run is in the Registry, where a log stream
\* can be opened on it and reads the buffer, until a stream has emitted
\* the line.
C12_InstallErrorReachesStream ==
    \A r \in Runs :
        inst[r] = "failed" =>
            \/ ErrorDelivered(r)
            \/ (r \in DOMAIN active_runs /\ ErrorBuffered(r))

\* C13: the handle of a registered run is null until the run's child has
\* been spawned, is that child's handle from then on (never overwritten,
\* never reset to null while the entry exists), and is set before either
\* reader starts: no reader of a registered run runs while the handle is
\* null.
C13_HandleSetOnceBeforeReaders ==
    [][ \A r \in Runs :
          /\ r \in DOMAIN active_runs' =>
                /\ active_runs'[r].process /= None =>
                      (active_runs'[r].process = r /\ child'[r] /= "none")
                /\ (\E p \in Pipes : rd'[r][p] /= "off") =>
                      active_runs'[r].process /= None
          /\ (r \in DOMAIN active_runs /\ r \in DOMAIN active_runs'
                /\ active_runs[r].process /= None)
                => active_runs'[r].process = active_runs[r].process
      ]_vars

\* A reader of a registered run holds a line it is about to put, and the
\* run's handle is set.
C13_Witness ==
    \E r \in DOMAIN active_runs, p \in Pipes :
        rd[r][p] = "put" /\ active_runs[r].process = r

\* C14: no blocking wait is on the event loop: while a creation request is
\* in its grace period, and while a log stream waits on the empty buffer
\* of a live run, the server can handle a stop request for any run.
C14_WaitsLeaveLoopFree ==
    loop.op \in {"run_sleep", "log_poll"} =>
        \A r \in Runs : ENABLED stop_project(r)

\* C15: the check-then-record of the supervisor is not interleaved with a
\* removal of its entry: a supervisor that found its run in the Registry
\* and is about to store the handle still has the entry to store it in.
C15_CheckThenRecordExclusive ==
    \A r \in Runs : sup[r] = "record_set" => r \in DOMAIN active_runs

\* C16: a log stream emits 'done' only in a poll that found the buffer of
\* its run empty and the run's recorded child exited; after 'done' the
\* stream emits nothing and stays closed; and a poll that finds the buffer
\* empty while the child has not exited, or the handle is null, does not
\* end the stream.
C16_DoneOnlyWhenEmptyAndExited ==
    [][ \A s \in DOMAIN streams :
          LET r == streams[s].rid
          IN  /\ (streams[s].ev /= DoneEvent /\ streams'[s].ev = DoneEvent)
                    => /\ logq[r] = << >>
                       /\ r \in DOMAIN active_runs
                       /\ active_runs[r].process /= None
                       /\ child[active_runs[r].process] = "exited"
              /\ streams[s].ev = DoneEvent
                    => (streams'[s] = streams[s] /\ streams[s].st = "closed")
              /\ (log_generator(s) /\ logq[r] = << >> /\ r \in DOMAIN active_runs
                    /\ (active_runs[r].process = None
                         \/ child[active_runs[r].process] /= "exited"))
                    => (streams'[s] = streams[s] /\ streams[s].st = "open")
      ]_vars

\* A log stream has emitted 'done' after it had waited on the empty buffer
\* of its run: the supervisor has since put its last line on the buffer.
C16_Witness ==
    \E s \in DOMAIN streams :
        /\ streams[s].ev = DoneEvent
        /\ child[streams[s].rid] = "exited"
        /\ logq[streams[s].rid] /= << >>

\* C17: a poll of a log stream that finds its run absent from the Registry,
\* the first poll or a later one, emits the 'not found' event and closes
\* the stream in that step, whatever is left on the buffer; after that
\* event the stream emits nothing; and a request for a stream on an absent
\* run opens no stream.
C17_AbsentRunEndsStream ==
    [][ /\ \A s \in DOMAIN streams :
              /\ (log_generator(s) /\ streams[s].rid \notin DOMAIN active_runs)
                    => /\ streams'[s].ev = NotFoundEvent
                       /\ streams'[s].st = "closed"
                       /\ logq' = logq
              /\ streams[s].ev = NotFoundEvent
                    => (streams'[s] = streams[s] /\ streams[s].st = "closed")
        /\ \A r \in Runs :
              (stream_logs(r) /\ r \notin DOMAIN active_runs)
                    => (streams' = streams /\ resp'.code = 404)
      ]_vars

\* A log stream has emitted 'not found' with lines left on the buffer of
\* its run, whose child is still alive.
C17_Witness ==
    \E s \in DOMAIN streams :
        /\ streams[s].ev = NotFoundEvent
        /\ logq[streams[s].rid] /= << >>
        /\ child[streams[s].rid] = "alive"

\* C18: with a single subscriber, every poll that finds a line on the buffer
\* of a registered run emits the line that was appended first among those
\* on the buffer and takes it off the buffer: the line was appended after
\* every line the stream has emitted before and before every line still on
\* the buffer, so the lines come out in the order of their appends, none
\* twice.
C18_LinesInAppendOrder ==
    [][ \A s \in DOMAIN streams :
          LET r == streams[s].rid
              e == streams'[s].ev
          IN  (Len(streams) = 1 /\ log_generator(s) /\ r \in DOMAIN active_runs
                /\ logq[r] /= << >>)
                => /\ e = Event("log", logq[r][1].n, logq[r][1].kind)
                   /\ logq'[r] = Tail(logq[r])
                   /\ streams[s].ev.n < e.n
                   /\ \A i \in DOMAIN logq'[r] : e.n < logq'[r][i].n
                   /\ \A i, j \in DOMAIN logq[r] : i < j => logq[r][i].n < logq[r][j].n
      ]_vars

\* The stream has emitted a line of a reader, after the lines of the
\* supervisor that precede it, and the last line of the supervisor is on
\* the buffer.
C18_Witness ==
    \E s \in DOMAIN streams :
        /\ streams[s].ev.kind \in Pipes
        /\ streams[s].ev.n = napp[streams[s].rid] - 1
        /\ \E i \in DOMAIN logq[streams[s].rid] :
              logq[streams[s].rid][i].kind = "finished"

\* C19: opening, running, ending and cancelling a log stream leave the
\* Registry (membership, handles, ports), the port counter, every workdir,
\* every child and every supervisor as they were, and send no signal.
C19_StreamLeavesRunAlone ==
    [][ ((\E r \in Runs : stream_logs(r))
          \/ (\E s \in DOMAIN streams : log_generator(s) \/ stream_cancel(s)))
            => /\ UNCHANGED <<active_runs, next_port, issued, workdir, child, sup>>
               /\ resp'.signals = << >>
      ]_vars

\* A log stream was cancelled after it had emitted a line, and its run is
\* registered with its child alive.
C19_Witness ==
    \E s \in DOMAIN streams :
        /\ streams[s].st = "closed"
        /\ streams[s].ev.type = "log" /\ streams[s].ev.n > 0
        /\ streams[s].rid \in DOMAIN active_runs
        /\ child[streams[s].rid] = "alive"

\* C20: a creation request that fails detection (no project root, no run
\* command) is answered with a 4xx status.
C20_DetectionFailureIs4xx ==
    (resp.op = "run" /\ resp.detail \in DetectionFailures) =>
        resp.code \in 400..499

\* The steps the server takes without a new request: the rest of a
\* creation request that is in progress, the delivery of a response, the
\* supervisors and the children.
Internal ==
    \/ handler_return
    \/ run_project_check
    \/ run_project_cleanup_kill
    \/ run_project_cleanup_del
    \/ run_project_fail
    \/ Threads
    \/ Children

\* C21: a registered run whose child has exited is torn down without a
\* further request: when the server has nothing left to do but wait for a
\* request, no run whose recorded child has exited is in the Registry.
C21_ExitedRunTornDown ==
    ~ENABLED Internal =>
        \A r \in DOMAIN active_runs :
            ~(active_runs[r].process /= None
              /\ child[active_runs[r].process] = "exited")

\* C22: a reader appends a line to the log buffer of its run only while
\* the run is in the Registry.
C22_NoAppendAfterRemoval ==
    [][ \A r \in Runs, p \in Pipes :
          reader_put(r, p) => r \in DOMAIN active_runs
      ]_vars

\* C23: cleanup-all and reset leave the Registry empty and send a kill to
\* every handle that is recorded in it and whose child has not exited;
\* cleanup-all answers the number of runs that were in the Registry when
\* it started.
C23_CleanupAllEmptiesAndKills ==
    [][ (cleanup_all \/ reset_server)
          => /\ active_runs' = << >>
             /\ resp'.op \in {"cleanup_all", "reset"} /\ resp'.ok
             /\ \A r \in DOMAIN active_runs :
                   (active_runs[r].process /= None
                    /\ child[active_runs[r].process] /= "exited")
                     => /\ active_runs[r].process \in resp'.to
                        /\ resp'.signals = <<"kill">>
             /\ resp'.op = "cleanup_all" =>
                   resp'.n = Cardinality(DOMAIN active_runs)
      ]_vars

\* Cleanup-all has returned: it found two runs, and a child it sent the
\* kill to is still alive because the kill failed.
C23_Witness ==
    /\ resp.op = "cleanup_all"
    /\ resp.n = 2
    /\ active_runs = << >>
    /\ \E h \in resp.to : child[h] = "alive"

\* C24: every file and every folder the materializer writes, at any depth
\* and whatever `..` and `/` its name and the names above it contain, lies
\* inside the destination root, and so does every directory the traversal
\* enters.
C24_WritesInsideRoot ==
    /\ written.at.inside
    /\ base_dir.inside

\* A file has been written below a folder, both under names that hold
\* `..` and start with a separator.
C24_Witness ==
    /\ written.type = "file" /\ written.ok
    /\ written.name = <<"/", ".", ".", "a">>
    /\ base_dir.level = 1 /\ base_dir.depth = 1

\* No path segment of the name is `..`.
NoDotDotSegment(name) ==
    \A i \in DOMAIN Segments(name) : Segments(name)[i] /= <<".", ".">>

\* C25: an entry whose name has no `..` path segment is written at the
\* relative path its name spells: the segments of the path it is written
\* at are the segments of its name, none dropped or renamed.
C25_WrittenAtItsName ==
    (written.type /= "none" /\ NoDotDotSegment(written.name)) =>
        written.rel = Segments(written.name)

\* C26: the execution directory is a shallowest directory that holds a
\* manifest: no directory with a manifest lies at a smaller depth; and the
\* detection fails only if no directory holds a manifest.
C26_ShallowestManifestDir ==
    LET t == project.dirs
        holders == {d \in DOMAIN t : t[d].files /= {}}
    IN  /\ detected.stage = "root" =>
              /\ detected.cwd \in holders
              /\ \A d \in holders : Depth(t, detected.cwd) <= Depth(t, d)
        /\ detected.stage = "failed" => holders = {}

\* The detection has ended, with the commands or with an error.
Detected == detected.stage \in {"done", "failed"}

\* The files of the execution directory of the detection.
ExecutionFiles == project.dirs[detected.cwd].files

\* The tool of the first framework, in the order streamlit, flask,
\* fastapi, that requirements.txt names.
FrameworkTool(reqs) ==
    IF "streamlit" \in reqs THEN "streamlit"
    ELSE IF "flask" \in reqs THEN "flask"
    ELSE "uvicorn"

\* C27: for a project with a requirements.txt that names streamlit, flask
\* or fastapi, the detection yields the run command of the first framework
\* named, in that order, and the command holds one port flag, with the
\* allocated port.
C27_FrameworkCommandWithPortOnce ==
    (/\ Detected
     /\ "requirements.txt" \in ExecutionFiles
     /\ project.content.reqs /= {})
    => /\ detected.stage = "done"
       /\ detected.run.tool = FrameworkTool(project.content.reqs)
       /\ detected.run.ports = <<"allocated">>

\* The project is a Node.js project: its install and run commands are npm
\* commands, or package.json is what made its directory the execution
\* directory.
NodeStyle ==
    \/ detected.install.tool = "npm" /\ detected.run.tool = "npm"
    \/ ExecutionFiles = {"package.json"}

\* C28: when the detection yields the commands of a Node.js project, the
\* environment of the child holds PORT with the allocated port.
C28_NodeProjectHasPort ==
    (detected.stage = "done" /\ NodeStyle) => detected.env_port

\* The run command is derived from a package.json that parses: README.md
\* gave none, and the execution directory has no requirements.txt.
NodeFallback ==
    /\ Detected
    /\ ExecutionFiles = {"package.json"}
    /\ project.content.readme.state /= "read"
         \/ project.content.readme.run = NoCommand
    /\ project.content.scripts.valid

\* C29: when the run command is derived from package.json, it is
\* `npm run dev` if there is a dev script, with or without a start script,
\* `npm run start` if there is a start script and no dev script, and the
\* detection fails for lack of a run command if there is neither.
C29_DevBeforeStart ==
    NodeFallback =>
        LET names == project.content.scripts.names
        IN  IF "dev" \in names
            THEN detected.stage = "done" /\ detected.run = Command("npm", "dev", << >>)
            ELSE IF "start" \in names
            THEN detected.stage = "done" /\ detected.run = Command("npm", "start", << >>)
            ELSE detected.stage = "failed" /\ detected.error = "no_run_command"

\* A package.json with both a dev and a start script gave `npm run dev`.
C29_Witness ==
    /\ NodeFallback
    /\ {"dev", "start"} \subseteq project.content.scripts.names
    /\ detected.run = Command("npm", "dev", << >>)

\* C30: when run_project returns the URL of a run, the run is registered
\* with the handle of a child that has not exited, and the port of the URL
\* is the port of its entry.
C30_SuccessMeansRegisteredAlive ==
    (resp.op = "run" /\ resp.ok) =>
        /\ resp.rid \in DOMAIN active_runs
        /\ active_runs[resp.rid].process /= None
        /\ child[active_runs[resp.rid].process] /= "exited"
        /\ resp.n = active_runs[resp.rid].port

\* The second run_project returned the URL of its run, on a port other
\* than the base port.
C30_Witness ==
    /\ resp.op = "run" /\ resp.ok
    /\ resp.rid \in DOMAIN active_runs
    /\ resp.n = active_runs[resp.rid].port
    /\ resp.n /= BasePort

\* C31: kill_processes_on_port leaves the Registry (its runs, their
\* handles and ports) and the port counter as they are, whatever the port
\* and whichever processes it kills.
C31_KillPortLeavesBookkeeping ==
    [][(\E p \in PortInputs, enum \in EnumOutcomes : kill_processes_on_port(p, enum))
       => (active_runs' = active_runs /\ next_port' = next_port)]_vars

\* kill_processes_on_port has killed the child of a run that is registered
\* with the port of the request.
C31_Witness ==
    /\ resp.op = "kill_port" /\ resp.ok /\ resp.n = 1
    /\ \E r \in DOMAIN active_runs :
          /\ active_runs[r].process /= None
          /\ child[active_runs[r].process] = "dying"

\* Stream s is open on a run that is not registered, or whose recorded
\* child has exited.
StreamDue(s) ==
    /\ s \in DOMAIN streams
    /\ streams[s].st = "open"
    /\ LET r == streams[s].rid
       IN  \/ r \notin DOMAIN active_runs
           \/ /\ active_runs[r].process /= None
              /\ child[active_runs[r].process] = "exited"

\* Stream s has ended.
StreamEnded(s) == s \in DOMAIN streams /\ streams[s].st = "closed"

C33_NoAppendAfterDone ==
    [][ \A s \in DOMAIN streams :
          (Len(streams) = 1 /\ streams[s].ev = DoneEvent)
            => napp'[streams[s].rid] = napp[streams[s].rid]
      ]_vars

\* C34: with two streams open on a run, a poll that finds a line takes it
\* off the buffer, so that no other stream can emit it: the line is newer
\* than the last line of every stream, the subscriber's own included, and
\* older than every line left on the buffer.
C34_LineGoesToOneSubscriber ==
    [][ \A s \in DOMAIN streams :
          LET r == streams[s].rid
              e == streams'[s].ev
          IN  (Len(streams) = 2 /\ log_generator(s) /\ r \in DOMAIN active_runs
                /\ logq[r] /= << >>)
                => /\ e = Event("log", logq[r][1].n, logq[r][1].kind)
                   /\ \A t \in DOMAIN streams : streams[t].ev.n < e.n
                   /\ \A i \in DOMAIN logq'[r] : e.n < logq'[r][i].n
      ]_vars

\* Two streams on one run have each emitted a line of its buffer, the
\* second stream an older line than the first.
C34_Witness ==
    /\ Len(streams) = 2
    /\ streams[1].rid = streams[2].rid
    /\ streams[1].ev.type = "log" /\ streams[2].ev.type = "log"
    /\ 0 < streams[2].ev.n
    /\ streams[2].ev.n < streams[1].ev.n

\* The steps of run_project between the registration of run r and the end
\* of its cleanup_process: the grace-period wait and what follows it
\* without an await.
Creating(r) ==
    loop.rid = r /\ loop.op \in {"run_sleep", "run_cleanup", "run_del"}

\* C35: an entry of the Registry with a null handle exists only while the
\* run_project that registered it is in its grace-period wait (or in the
\* check and cleanup that follow it in the same stretch): whenever no
\* handler holds the event loop, every entry has a handle.
C35_NullHandleOnlyWhileCreating ==
    \A r \in DOMAIN active_runs :
        active_runs[r].process = None => (loop /= Idle /\ Creating(r))

\* A run is registered with a null handle while its run_project has
\* finished the grace-period wait and is about to clean it up, next to a
\* run that has its handle.
C35_Witness ==
    \E r, x \in DOMAIN active_runs :
        /\ active_runs[r].process = None
        /\ loop = [op |-> "run_cleanup", rid |-> r]
        /\ active_runs[x].process /= None

\* C36: when run_project answers with a failure, whatever the reason, its
\* run is not in the Registry and its temp_dir has been removed.
C36_FailureLeavesNothing ==
    (resp.op = "run" /\ ~resp.ok) =>
        /\ resp.rid \notin DOMAIN active_runs
        /\ workdir[resp.rid] = "removed"

Exited(reg, ch) ==
    {x \in DOMAIN reg : reg[x].process /= None /\ ch[reg[x].process] = "exited"}

\* C38: the first steps of every run_project, one that fails in its setup
\* included, remove from the Registry the runs whose recorded child has
\* exited and no other: the runs whose child is alive or dying, or whose
\* handle is null, stay with their entries as they were, and no child is
\* sent a signal.
C38_SweepRemovesExactlyExited ==
    [][ \A o \in StartOutcomes :
          run_project_start(o)
            => LET r == Len(issued) + 1
                   kept == DOMAIN active_runs \ Exited(active_runs, child)
               IN  /\ DOMAIN active_runs' \ {r} = kept
                   /\ \A x \in kept : active_runs'[x] = active_runs[x]
                   /\ Exited(active_runs', child') = {}
                   /\ child' = child
      ]_vars

\* The second run_project is in its grace-period wait, and the first run,
\* whose child has exited and whose supervisor has finished, is not in the
\* Registry.
C38_Witness ==
    /\ loop = [op |-> "run_sleep", rid |-> 2]
    /\ DOMAIN active_runs = {2}
    /\ child[1] = "exited"
    /\ sup[1] = "done"
    /\ sup[2] = "install"

====
